---- MODULE Spec2Model ----
(***************************************************************************)
(* Model of iss_dashboard.py: the Streamlit script main(), the refresh     *)
(* cycle update_position(), the feed parser fetch_iss_tle() and the        *)
(* propagation call get_current_iss_position().                            *)
(*                                                                         *)
(* Text is modelled at character level (a string is a sequence of          *)
(* one-character strings) so that upper(), strip(), split('\n') and the    *)
(* substring test of the name match are computed, not assumed.             *)
(*                                                                         *)
(* The script runs under the Streamlit runtime: one run of main() at a     *)
(* time in a session; a widget event that comes while a run is under way   *)
(* is held by the runtime, which stops the run when it next calls an st.*  *)
(* command or touches st.session_state and then runs the script again from *)
(* the top with the new widget values.  time.sleep and the network request *)
(* are not such places.                                                    *)
(***************************************************************************)
EXTENDS Integers, Sequences, FiniteSets, TLC

VARIABLES
    pc,                 \* position of the script run in main()
    has_tracking_data,  \* 'tracking_data' in st.session_state
    tracking_data,      \* st.session_state.tracking_data, rows in frame order
    auto_update,        \* value of the "Auto-update" checkbox
    update_now,         \* st.sidebar.button("Update Now") is True in this run
    uncaught,           \* an exception left main() in this run
    response,           \* what requests.get produced in the last cycle
    tle_data,           \* what fetch_iss_tle returned in the last cycle
    outcome,            \* how the last call of update_position ended
    st_error,           \* st.error was called during the last cycle
    now,                \* last instant read from ts.now()
    map_sink,           \* frame last drawn into map_placeholder
    telemetry_sink,     \* fix last written into telemetry_placeholder
    table_sink,         \* frame last shown in table_placeholder
    last_fix,           \* history: the fix of the last successful cycle
    produced,           \* history: the fixes computed so far, while no fix
                        \* was computed twice
    repeated,           \* history: some fix was computed twice
    anomalies,          \* history: anomalous cycles so far
    stepped_back,       \* history: some fix was computed at an instant
                        \* before that of the fix computed before it
    pending,            \* the widget event the runtime holds for the script
    in_flight,          \* a click on "Update Now" came while
                        \* update_position was running, and has not been
                        \* served yet
    stopped_at          \* the line the last call of update_position was
                        \* stopped at by the runtime, 0 if it was not

vars == <<pc, has_tracking_data, tracking_data, auto_update, update_now,
          uncaught, response, tle_data, outcome, st_error, now, map_sink,
          telemetry_sink, table_sink, last_fix, produced, repeated,
          anomalies, stepped_back, pending, in_flight, stopped_at>>

----------------------------------------------------------------------------
(* Bounds of the model.                                                    *)

\* Named objects listed in one fetched text.
MaxObjects == 2
\* Instants are numbered 0..MaxTime in the order ts.now() can return them.
MaxTime == 25
\* Successful cycles in one session in which the clock has not moved on
\* since the last reading.
MaxAnomalies == 1

----------------------------------------------------------------------------
(* Python str operations used by fetch_iss_tle.                            *)

LowerLetters == <<"a","b","c","d","e","f","g","h","i","j","k","l","m",
                  "n","o","p","q","r","s","t","u","v","w","x","y","z">>
UpperLetters == <<"A","B","C","D","E","F","G","H","I","J","K","L","M",
                  "N","O","P","Q","R","S","T","U","V","W","X","Y","Z">>

\* str.upper() on one character.
UpperChar(c) ==
    IF \E k \in 1..Len(LowerLetters) : LowerLetters[k] = c
    THEN UpperLetters[CHOOSE k \in 1..Len(LowerLetters) : LowerLetters[k] = c]
    ELSE c

\* str.upper()
Upper(s) == [k \in 1..Len(s) |-> UpperChar(s[k])]

\* The characters str.strip() removes.
Whitespace == {" ", "\n", "\r", "\t"}

RECURSIVE LStrip(_)
LStrip(s) ==
    IF s # <<>> /\ Head(s) \in Whitespace THEN LStrip(Tail(s)) ELSE s

RECURSIVE RStrip(_)
RStrip(s) ==
    IF s # <<>> /\ s[Len(s)] \in Whitespace
    THEN RStrip(SubSeq(s, 1, Len(s) - 1))
    ELSE s

\* str.strip()
Strip(s) == RStrip(LStrip(s))

\* sub in s
Contains(sub, s) ==
    \E k \in 0..(Len(s) - Len(sub)) : SubSeq(s, k + 1, k + Len(sub)) = sub

\* str.split('\n'): the pieces between newlines; "" splits into [""].
RECURSIVE SplitFrom(_, _)
SplitFrom(s, piece) ==
    IF s = <<>> THEN <<piece>>
    ELSE IF Head(s) = "\n" THEN <<piece>> \o SplitFrom(Tail(s), <<>>)
    ELSE SplitFrom(Tail(s), Append(piece, Head(s)))

SplitLines(s) == SplitFrom(s, <<>>)

----------------------------------------------------------------------------
(* fetch_iss_tle                                                           *)

\* The name test of the scan (line 24): the line, upper-cased, contains
\* "ISS" or contains "ZARYA".
IsMatch(line) ==
    \/ Contains(<<"I","S","S">>, Upper(line))
    \/ Contains(<<"Z","A","R","Y","A">>, Upper(line))

\* The bound test of the scan (line 25), for the 1-based index j = i + 1:
\* i + 2 < len(lines).
HasTwoAfter(j, n) == (j - 1) + 2 < n

\* The value returned for a hit at index j (line 26).
PairAt(lines, j) == <<Strip(lines[j + 1]), Strip(lines[j + 2])>>

\* The for loop of lines 23-27 from index j on; <<>> stands for None.
RECURSIVE Scan(_, _)
Scan(lines, j) ==
    IF j > Len(lines) THEN <<>>
    ELSE IF IsMatch(lines[j]) /\ HasTwoAfter(j, Len(lines))
         THEN PairAt(lines, j)
         ELSE Scan(lines, j + 1)

\* A response of requests.get + raise_for_status: the text, or a
\* RequestException.
TransportFailure == [ok |-> FALSE, text |-> <<>>]
TextResponse(t) == [ok |-> TRUE, text |-> t]

\* fetch_iss_tle: the returned value and whether st.error was called.
FetchEmptyPair(resp) ==
    IF resp.ok
    THEN LET found == Scan(SplitLines(Strip(resp.text)), 1)
         IN  [ret |-> IF found = <<>> THEN << <<>>, <<>> >> ELSE found,
              error |-> FALSE]
    ELSE [ret |-> <<>>, error |-> TRUE]
fetch_iss_tle(resp) ==
    IF resp.ok
    THEN [ret |-> Scan(SplitLines(Strip(resp.text)), 1), error |-> FALSE]
    ELSE [ret |-> <<>>, error |-> TRUE]

----------------------------------------------------------------------------
(* Feed texts.                                                             *)

HeaderZarya == <<"I","S","S"," ","(","Z","A","R","Y","A",")">>
\* the same header in lower case with trailing whitespace
HeaderZaryaLower == <<"i","s","s"," ","(","z","a","r","y","a",")"," ","\r">>
\* other objects of the stations feed
HeaderNauka == <<"I","S","S"," ","(","N","A","U","K","A",")">>
HeaderTianhe == <<"C","S","S"," ","(","T","I","A","N","H","E",")">>

\* Element lines, abbreviated to line number and catalogue number.
ZaryaLine1 == <<"1"," ","2","5","5","4","4","U"," ">>
ZaryaLine2 == <<"2"," ","2","5","5","4","4">>
OtherLine1 == <<"1"," ","4","9","0","4","4","U">>
OtherLine2 == <<"2"," ","4","9","0","4","4","\r">>

ZaryaHeaders == {HeaderZarya, HeaderZaryaLower}
Headers == ZaryaHeaders \cup {HeaderNauka, HeaderTianhe}

\* One object's entry: its header and zero, one or two of its element lines
\* (a truncated feed ends inside an entry).
Entries ==
    UNION { { <<h>>,
              <<h, ZaryaLine1>>, <<h, ZaryaLine1, ZaryaLine2>>,
              <<h, OtherLine1>>, <<h, OtherLine1, OtherLine2>> } : h \in Headers }

RECURSIVE Flatten(_)
Flatten(ss) == IF ss = <<>> THEN <<>> ELSE Head(ss) \o Flatten(Tail(ss))

\* The lines of a feed listing up to MaxObjects entries.
FeedLines ==
    { Flatten(es) : es \in UNION { [1..n -> Entries] : n \in 0..MaxObjects } }

RECURSIVE Join(_)
Join(lines) ==
    IF lines = <<>> THEN <<>>
    ELSE IF Len(lines) = 1 THEN Head(lines)
    ELSE Head(lines) \o <<"\n">> \o Join(Tail(lines))

\* The texts of the feed, with and without a final newline.
FeedTexts ==
    { Join(ls) : ls \in FeedLines } \cup { Join(ls) \o <<"\n">> : ls \in FeedLines }

FeedResponses == {TransportFailure} \cup { TextResponse(t) : t \in FeedTexts }

----------------------------------------------------------------------------
(* get_current_iss_position                                                *)

\* EarthSatellite(line1, line2, ...) accepts a pair of element lines: line 1
\* is marked "1", line 2 is marked "2", and both carry the same catalogue
\* number (columns 3-7).  Anything else raises.
WellFormed(line1, line2) ==
    /\ Len(line1) >= 7 /\ Len(line2) >= 7
    /\ line1[1] = "1" /\ line2[1] = "2"
    /\ SubSeq(line1, 3, 7) = SubSeq(line2, 3, 7)

\* The orbit the element set describes: 1 for catalogue number 25544.
OrbitOf(line1) == IF SubSeq(line1, 3, 7) = <<"2","5","5","4","4">> THEN 1 ELSE 2

\* The sub-satellite point of orbit o at instant t, in whole degrees and km.
LatitudeAt(o, t) == ((3 * t + o) % 7) - 3
LongitudeAt(o, t) == ((5 * t + 2 * o) % 9) - 4
AltitudeAt(o, t) == 400 + o + (t % 2)

\* The dict returned at lines 39-44.
PositionAt(o, t) ==
    [timestamp |-> t, latitude |-> LatitudeAt(o, t),
     longitude |-> LongitudeAt(o, t), altitude |-> AltitudeAt(o, t)]

\* get_current_iss_position at instant t: the position, or an exception.
get_current_iss_position(line1, line2, t) ==
    IF WellFormed(line1, line2)
    THEN [raised |-> FALSE, position |-> <<PositionAt(OrbitOf(line1), t)>>]
    ELSE [raised |-> TRUE, position |-> <<>>]

----------------------------------------------------------------------------
(* The history frame: concat, drop_duplicates, tail, sort_values.          *)

\* .tail(20) of line 100
Capacity == 20

\* DataFrame.drop_duplicates(): rows are compared on all four columns and
\* the first of equal rows is kept.
DropAdjacentDuplicates(rows) ==
    IF Len(rows) < 2 THEN rows
    ELSE IF rows[Len(rows)] = rows[Len(rows) - 1]
         THEN SubSeq(rows, 1, Len(rows) - 1)
         ELSE rows

RECURSIVE DropFrom(_, _)
DropFrom(rows, kept) ==
    IF rows = <<>> THEN kept
    ELSE IF \E k \in 1..Len(kept) : kept[k] = Head(rows)
         THEN DropFrom(Tail(rows), kept)
         ELSE DropFrom(Tail(rows), Append(kept, Head(rows)))

DropDuplicatesKeepNone(rows) ==
    SelectSeq(rows, LAMBDA row : \A i, j \in 1..Len(rows) :
                                    (rows[i] = row /\ rows[j] = row) => i = j)
DropDuplicates(rows) == DropFrom(rows, <<>>)

\* DataFrame.tail(n)
TailRowsHead(rows, n) == IF Len(rows) <= n THEN rows ELSE SubSeq(rows, 1, n)
TailRowsOff(rows, n) == IF Len(rows) <= n + 1 THEN rows ELSE SubSeq(rows, Len(rows) - n, Len(rows))
TailRowsShort(rows, n) ==
    IF Len(rows) < n THEN rows ELSE SubSeq(rows, Len(rows) - n + 2, Len(rows))
TailRows(rows, n) ==
    IF Len(rows) <= n THEN rows ELSE SubSeq(rows, Len(rows) - n + 1, Len(rows))

\* pd.concat([frame, new_row])
ConcatFront(rows, new_row) == new_row \o rows
Concat(rows, new_row) == rows \o new_row

\* Lines 98-100.
MergeNoDedup(rows, new_row) == TailRows(Concat(rows, new_row), Capacity)
Merge(rows, new_row) ==
    TailRows(DropDuplicates(Concat(rows, new_row)), Capacity)

\* sort_values('timestamp', ascending=False).  The default sort kind is not
\* stable, so rows of equal timestamp come out in either order: ties_first
\* says whether a row goes before or after the rows of its timestamp.
RECURSIVE InsertByTimestamp(_, _, _)
InsertByTimestamp(row, sorted, ties_first) ==
    IF sorted = <<>> THEN <<row>>
    ELSE IF \/ row.timestamp > Head(sorted).timestamp
            \/ (ties_first /\ row.timestamp = Head(sorted).timestamp)
         THEN <<row>> \o sorted
         ELSE <<Head(sorted)>> \o InsertByTimestamp(row, Tail(sorted), ties_first)

RECURSIVE SortFrom(_, _, _)
SortFrom(rows, sorted, ties_first) ==
    IF rows = <<>> THEN sorted
    ELSE SortFrom(Tail(rows), InsertByTimestamp(Head(rows), sorted, ties_first),
                  ties_first)

SortFrameOrder(rows, ties_first) == rows
SortNewestFirst(rows, ties_first) == SortFrom(rows, <<>>, ties_first)

----------------------------------------------------------------------------
(* update_position                                                         *)

\* The responses the feed gives a cycle of the dashboard.
GoodFeed ==
    TextResponse(Join(<<HeaderZarya, ZaryaLine1, ZaryaLine2,
                        HeaderTianhe, OtherLine1, OtherLine2>>) \o <<"\n">>)
NaukaFirstFeed ==
    TextResponse(Join(<<HeaderNauka, OtherLine1, OtherLine2,
                        HeaderZarya, ZaryaLine1, ZaryaLine2>>))
NoMatchFeed == TextResponse(Join(<<HeaderTianhe, OtherLine1, OtherLine2>>))
TruncatedFeed == TextResponse(Join(<<HeaderZaryaLower, ZaryaLine1>>) \o <<"\n">>)
MalformedFeed ==
    TextResponse(Join(<<HeaderZarya, ZaryaLine1, HeaderTianhe, OtherLine1, OtherLine2>>))

CycleResponses ==
    {TransportFailure, GoodFeed, NaukaFirstFeed, NoMatchFeed, TruncatedFeed,
     MalformedFeed}

\* fetch_iss_tle on each response of the feed, computed once: the responses
\* a cycle of the dashboard gets, and all of them.
Fetched == [resp \in CycleResponses |-> fetch_iss_tle(resp)]
FeedFetched == [resp \in FeedResponses |-> fetch_iss_tle(resp)]
Fetch(resp) ==
    IF resp \in CycleResponses THEN Fetched[resp] ELSE FeedFetched[resp]

\* The result of one call of update_position is a record: the value of
\* tle_data, whether st.error was called, how the call ended and whether an
\* exception left it, the frame stored in the session, and what was drawn
\* into the three placeholders (drawn says whether anything was).

\* A call that ends at line 87 with tle_data None, or at line 89 with the
\* exception of get_current_iss_position: nothing is stored, nothing drawn.
FailedCycleClears(frame, fetched, how) ==
    [tle_data |-> fetched.ret, st_error |-> fetched.error,
     outcome |-> how, raised |-> how = "propagation",
     tracking_data |-> <<>>, drawn |-> FALSE,
     map |-> <<>>, telemetry |-> <<>>, table |-> <<>>]
FailedCycle(frame, fetched, how) ==
    [tle_data |-> fetched.ret, st_error |-> fetched.error,
     outcome |-> how, raised |-> how = "propagation",
     tracking_data |-> frame, drawn |-> FALSE,
     map |-> <<>>, telemetry |-> <<>>, table |-> <<>>]

\* A call that reaches line 140: lines 92-140.
SucceededCycleDrawsUnmerged(frame, fetched, position, ties_first) ==
    LET merged == Merge(frame, position)
    IN  [tle_data |-> fetched.ret, st_error |-> fetched.error,
         outcome |-> "ok", raised |-> FALSE,
         tracking_data |-> merged, drawn |-> TRUE,
         map |-> Concat(frame, position), telemetry |-> position,
         table |-> SortNewestFirst(merged, ties_first)]
SucceededCycle(frame, fetched, position, ties_first) ==
    LET merged == Merge(frame, position)
    IN  [tle_data |-> fetched.ret, st_error |-> fetched.error,
         outcome |-> "ok", raised |-> FALSE,
         tracking_data |-> merged, drawn |-> TRUE,
         map |-> merged, telemetry |-> position,
         table |-> SortNewestFirst(merged, ties_first)]

\* update_position, given the frame in the session, the response of the
\* feed, the instant ts.now() returns and the order sort_values gives ties.
update_position(frame, resp, t, ties_first) ==
    LET fetched == Fetch(resp)
    IN  IF fetched.ret = <<>>
        THEN FailedCycle(frame, fetched, IF resp.ok THEN "notfound" ELSE "transport")
        ELSE LET got == get_current_iss_position(fetched.ret[1], fetched.ret[2], t)
             IN  IF got.raised
                 THEN FailedCycle(frame, fetched, "propagation")
                 ELSE SucceededCycle(frame, fetched, got.position, ties_first)

\* The position a cycle computes from this response at instant t; <<>> if
\* it computes none.
Computed(resp, t) ==
    LET fetched == Fetch(resp)
    IN  IF fetched.ret = <<>> THEN <<>>
        ELSE get_current_iss_position(fetched.ret[1], fetched.ret[2], t).position

\* What the clock and the feed give one cycle.  The clock is read by a
\* successful cycle only.  In a regular cycle it has moved on by one instant
\* and the feed lists ISS (ZARYA) first.  In an anomalous cycle (there are
\* at most MaxAnomalies in a session) the clock shows the instant of the
\* last reading again, or the instant before; in the first anomalous cycle
\* of a session the feed may list ISS (NAUKA) first while the clock shows
\* the instant of the last reading.
Late(t) == IF t = now + 1 THEN 0 ELSE 1
Admitted(resp, t) ==
    \E position \in {Computed(resp, t)} :
        IF position = <<>> THEN t = now
        ELSE /\ anomalies + Late(t) <= MaxAnomalies
             /\ position # <<PositionAt(1, t)>> => (t = now /\ anomalies = 0)

\* The widget events: a change of the "Auto-update" box (line 72) and a
\* click on "Update Now" (line 76).
Events == {"toggle", "click"}

\* The runtime stops a run for which it holds a widget event when the run
\* next calls an st.* command or reads or writes st.session_state, before
\* that takes effect, and runs the script again from the top.  These are
\* the lines of update_position where the call r can be stopped: st.error
\* at line 29 (through fetch_iss_tle), the session frame read at line 99 and
\* the placeholders at lines 120, 123 and 131; a call that ends at line 27
\* or with the exception of line 89 passes none of them.  An event held
\* since before the call stops it at the first of them: line 99 or, under
\* a runtime that stops a run at st.* commands only, line 120.
StopLines(r, held) ==
    IF r.outcome = "transport" THEN {29}
    ELSE IF r.outcome = "ok"
         THEN IF held # "none" THEN {99, 120} ELSE {99, 120, 123, 131}
         ELSE {}

\* One call of update_position while the runtime holds the event `held`
\* ("none" for no event).  While it holds none, an event may arrive during
\* the call.  `line` is the line the call is stopped at, 0 for a call that
\* is not stopped.  The script goes on at `next` unless the run is stopped
\* or the exception of get_current_iss_position ends it.
CycleWith(responses, next, held) ==
    \E resp \in responses, t \in {now - 1, now, now + 1} \cap (0..MaxTime) :
      /\ Admitted(resp, t)
      /\ \E ties_first \in BOOLEAN :
           \E r \in {update_position(tracking_data, resp, t, ties_first)} :
             \E arriving \in {"none"} \cup (IF held = "none" /\ StopLines(r, held) # {}
                                            THEN Events ELSE {}) :
               \E line \in (IF (held # "none" \/ arriving # "none")
                               /\ StopLines(r, held) # {}
                            THEN StopLines(r, held) ELSE {0}) :
                 /\ response' = resp
                 /\ tle_data' = r.tle_data
                 /\ st_error' = (r.st_error /\ line # 29)
                 /\ outcome' = IF line # 0 THEN "stopped" ELSE r.outcome
                 /\ stopped_at' = line
                 /\ tracking_data' = IF line = 99 THEN tracking_data
                                     ELSE r.tracking_data
                 /\ uncaught' = r.raised
                 /\ pc' = IF line # 0 THEN "rerun"
                          ELSE IF r.raised THEN "idle" ELSE next
                 /\ pending' = IF arriving # "none" THEN arriving ELSE held
                 /\ in_flight' = (arriving = "click")
                 /\ map_sink' = IF r.drawn /\ line \in {0, 123, 131}
                                THEN r.map ELSE map_sink
                 /\ telemetry_sink' = IF r.drawn /\ line \in {0, 131}
                                      THEN r.telemetry ELSE telemetry_sink
                 /\ table_sink' = IF r.drawn /\ line = 0
                                  THEN r.table ELSE table_sink
                 /\ (r.drawn /\ line = 0) \/ ties_first
                 /\ IF r.drawn /\ line # 99
                    THEN \E again \in {repeated \/ \E k \in 1..Len(produced) :
                                                     <<produced[k]>> = r.telemetry} :
                           /\ now' = t
                           /\ last_fix' = r.telemetry
                           /\ repeated' = again
                           /\ produced' = IF again THEN <<>>
                                          ELSE produced \o r.telemetry
                           /\ anomalies' = anomalies + Late(t)
                           /\ stepped_back' = (stepped_back \/ t < now)
                    ELSE UNCHANGED <<now, last_fix, produced, repeated,
                                     anomalies, stepped_back>>

Cycle(next, held) == CycleWith(CycleResponses, next, held)

----------------------------------------------------------------------------
(* main                                                                    *)

Init ==
    /\ pc = "start"
    /\ has_tracking_data = FALSE
    /\ tracking_data = <<>>
    /\ auto_update = TRUE
    /\ update_now = FALSE
    /\ uncaught = FALSE
    /\ response = TransportFailure
    /\ tle_data = <<>>
    /\ outcome = "none"
    /\ st_error = FALSE
    /\ now = 0
    /\ map_sink = <<>>
    /\ telemetry_sink = <<>>
    /\ table_sink = <<>>
    /\ last_fix = <<>>
    /\ produced = <<>>
    /\ repeated = FALSE
    /\ anomalies = 0
    /\ stepped_back = FALSE
    /\ pending = "none"
    /\ in_flight = FALSE
    /\ stopped_at = 0

\* Lines 46-73 of a run of the script with the widget values given: the
\* page is laid out anew (nothing of the last run's cycles is shown, the
\* placeholders are empty), and the session frame is created if the
\* session has none.
ScriptTopClears(auto, clicked) ==
    /\ has_tracking_data' = TRUE
    /\ tracking_data' = <<>>
    /\ map_sink' = <<>>
    /\ telemetry_sink' = <<>>
    /\ table_sink' = <<>>
    /\ auto_update' = auto
    /\ update_now' = clicked
    /\ uncaught' = FALSE
    /\ response' = TransportFailure
    /\ tle_data' = <<>>
    /\ outcome' = "none"
    /\ st_error' = FALSE
    /\ stopped_at' = 0
    /\ pc' = "button"
    /\ UNCHANGED <<now, last_fix, produced, repeated, anomalies, stepped_back>>
ScriptTop(auto, clicked) ==
    /\ has_tracking_data' = TRUE
    /\ tracking_data' = IF has_tracking_data THEN tracking_data ELSE <<>>
    /\ map_sink' = <<>>
    /\ telemetry_sink' = <<>>
    /\ table_sink' = <<>>
    /\ auto_update' = auto
    /\ update_now' = clicked
    /\ uncaught' = FALSE
    /\ response' = TransportFailure
    /\ tle_data' = <<>>
    /\ outcome' = "none"
    /\ st_error' = FALSE
    /\ stopped_at' = 0
    /\ pc' = "button"
    /\ UNCHANGED <<now, last_fix, produced, repeated, anomalies, stepped_back>>

\* The first run of the session: the box is ticked, nothing was clicked.
FirstRun ==
    /\ pc = "start"
    /\ ScriptTop(TRUE, FALSE)
    /\ UNCHANGED <<pending, in_flight>>

\* The user ticks or unticks "Auto-update" (line 72) after main has
\* returned: the script runs again from the top.
ToggleAutoUpdate ==
    /\ pc = "idle"
    /\ pending = "none"
    /\ ScriptTop(~auto_update, FALSE)
    /\ UNCHANGED <<pending, in_flight>>

\* The user clicks "Update Now" (line 76) after main has returned: the
\* script runs again from the top, and the button is True in that run.
ClickUpdateNow ==
    /\ pc = "idle"
    /\ pending = "none"
    /\ ScriptTop(auto_update, TRUE)
    /\ UNCHANGED <<pending, in_flight>>

\* The runtime runs the script again from the top for the event it holds,
\* once the last run has been stopped or has ended: the box has its new
\* value, and the button is True in a run started by a click.
Rerun ==
    /\ pc \in {"rerun", "idle"}
    /\ pending # "none"
    /\ ScriptTop(IF pending = "toggle" THEN ~auto_update ELSE auto_update,
                 pending = "click")
    /\ pending' = "none"
    /\ UNCHANGED in_flight

\* Lines 76-77, in a run started by a click on "Update Now".
ManualUpdate ==
    /\ pc = "button"
    /\ update_now
    /\ Cycle("loop", "none")
    /\ update_now' = FALSE
    /\ UNCHANGED <<has_tracking_data, auto_update>>

\* Line 76 in any other run.
NoManualUpdate ==
    /\ pc = "button"
    /\ ~update_now
    /\ pc' = "loop"
    /\ in_flight' = FALSE
    /\ UNCHANGED <<has_tracking_data, tracking_data, auto_update, update_now,
                   uncaught, response, tle_data, outcome, st_error, now,
                   map_sink, telemetry_sink, table_sink, last_fix, produced,
                   repeated, anomalies, stepped_back, pending, stopped_at>>

\* Lines 80-81: one pass of the loop.
AutoUpdateUnticked ==
    /\ pc = "loop"
    /\ Cycle("sleep", pending)
    /\ UNCHANGED <<has_tracking_data, auto_update, update_now>>
AutoUpdate ==
    /\ pc = "loop"
    /\ auto_update
    /\ Cycle("sleep", pending)
    /\ UNCHANGED <<has_tracking_data, auto_update, update_now>>

\* Line 82.  A widget event may reach the runtime while the script sleeps;
\* the runtime holds it, and the script goes on to line 80.  What is
\* recorded of the call of update_position just made ends here.
Sleep ==
    /\ pc = "sleep"
    /\ pc' = "loop"
    /\ \E arriving \in {"none"} \cup (IF pending = "none" THEN Events ELSE {}) :
         pending' = IF arriving # "none" THEN arriving ELSE pending
    /\ in_flight' = FALSE
    /\ response' = TransportFailure
    /\ tle_data' = <<>>
    /\ outcome' = "none"
    /\ st_error' = FALSE
    /\ UNCHANGED <<has_tracking_data, tracking_data, auto_update, update_now,
                   uncaught, stopped_at, now, map_sink, telemetry_sink, table_sink,
                   last_fix, produced, repeated, anomalies, stepped_back>>

\* Line 80 with the box unticked: main returns.
EndOfScript ==
    /\ pc = "loop"
    /\ ~auto_update
    /\ pc' = "idle"
    /\ UNCHANGED <<has_tracking_data, tracking_data, auto_update, update_now,
                   uncaught, response, tle_data, outcome, st_error, now,
                   map_sink, telemetry_sink, table_sink, last_fix, produced,
                   repeated, anomalies, stepped_back, pending, in_flight,
                   stopped_at>>

Next ==
    \/ FirstRun
    \/ ToggleAutoUpdate
    \/ ClickUpdateNow
    \/ Rerun
    \/ ManualUpdate
    \/ NoManualUpdate
    \/ AutoUpdate
    \/ Sleep
    \/ EndOfScript

Spec == Init /\ [][Next]_vars

----------------------------------------------------------------------------
(* One cycle of the loop on any text of the feed.                          *)

\* A session at line 80 of a run with the box ticked, before the first
\* cycle of the run: the first run of the session, or a later run after one
\* successful cycle.
FeedInit ==
    /\ pc = "loop"
    /\ has_tracking_data = TRUE
    /\ auto_update = TRUE
    /\ update_now = FALSE
    /\ uncaught = FALSE
    /\ response = TransportFailure
    /\ tle_data = <<>>
    /\ outcome = "none"
    /\ st_error = FALSE
    /\ map_sink = <<>>
    /\ telemetry_sink = <<>>
    /\ table_sink = <<>>
    /\ repeated = FALSE
    /\ anomalies = 0
    /\ stepped_back = FALSE
    /\ pending = "none"
    /\ in_flight = FALSE
    /\ stopped_at = 0
    /\ \/ /\ now = 0
          /\ tracking_data = <<>>
          /\ last_fix = <<>>
          /\ produced = <<>>
       \/ /\ now = 1
          /\ tracking_data = <<PositionAt(1, 1)>>
          /\ last_fix = <<PositionAt(1, 1)>>
          /\ produced = <<PositionAt(1, 1)>>

\* Lines 80-81, once, the feed answering with any of its responses.
FeedCycle ==
    /\ pc = "loop"
    /\ outcome = "none"
    /\ CycleWith(FeedResponses, "sleep", "none")
    /\ pending' = "none"
    /\ UNCHANGED <<has_tracking_data, auto_update, update_now>>

FeedSpec == FeedInit /\ [][FeedCycle]_vars

----------------------------------------------------------------------------
(* Properties.                                                             *)

\* The ways a cycle fails.
Failures == {"transport", "notfound", "propagation"}

\* In these states the next step of the script is a call of update_position
\* (line 77 or line 81) and no other action is enabled.
AtCycle == (pc = "button" /\ update_now) \/ (pc = "loop" /\ auto_update)

\* The number of rows of a frame equal to row.
Occurrences(row, rows) == Cardinality({k \in 1..Len(rows) : rows[k] = row})

\* The last n elements of a sequence, or all of it if it has fewer.
LastOf(seq, n) ==
    IF Len(seq) <= n THEN seq
    ELSE [k \in 1..n |-> seq[Len(seq) - n + k]]

\* C1: in every reachable state the history buffer holds at most 20 rows.
C1_AtMostCapacity == Len(tracking_data) <= 20

\* C1 witness: the buffer is full and more than 20 distinct fixes have been
\* computed, so rows have been evicted.
C1_Witness ==
    /\ Len(tracking_data) = 20
    /\ Len(produced) >= 23
    /\ outcome \in Failures

\* C2: in every reachable state no two rows of the buffer are the same
\* (timestamp, latitude, longitude, altitude) tuple.
C2_NoDuplicateRows ==
    \A i, j \in 1..Len(tracking_data) :
        i # j => tracking_data[i] # tracking_data[j]

\* C2 witness: a fix was computed again after another fix had been computed
\* in between (the last fix computed is a row of the buffer that is not the
\* last row).
C2_Witness ==
    /\ repeated
    /\ \E k \in 1..(Len(tracking_data) - 1) : last_fix = <<tracking_data[k]>>

\* C3: a call of update_position that fails (transport failure, no element
\* pair found, exception of the propagation) leaves the buffer as it was.
C3_FailureLeavesBuffer ==
    [][(AtCycle /\ outcome' \in Failures) => tracking_data' = tracking_data]_vars

\* C3 witness: a successful cycle produced F1, then a cycle failed on the
\* transport, and the buffer is [F1].
C3_Witness ==
    /\ outcome = "transport"
    /\ produced # <<>>
    /\ tracking_data = <<produced[1]>>

\* C4: a failed cycle does not stop the loop: whatever the error kind, no
\* exception leaves update_position, and with auto-update on the script is
\* still in its loop after the cycle.
C4_FailedCycleKeepsLoop ==
    outcome \in Failures =>
        /\ ~uncaught
        /\ auto_update => pc \in {"loop", "sleep"}

\* C5: every failed cycle, whatever the error kind, calls st.error.
C5_FailureReported == outcome \in Failures => st_error

\* C6: starting from the empty buffer, after k successful cycles that
\* computed pairwise distinct fixes the buffer is the last min(k, 20) of
\* them in the order they were computed.
C6_LastFixesInOrder ==
    ~repeated => tracking_data = LastOf(produced, 20)

\* C6 witness: 25 pairwise distinct fixes have been computed.
C6_Witness == ~repeated /\ Len(produced) = 25

\* C7: when a successful cycle computes the fix the last successful cycle
\* computed, the buffer stays as it was after that cycle and holds the fix
\* once.
C7_Idempotent ==
    [][(AtCycle /\ outcome' = "ok" /\ last_fix' = last_fix) =>
          /\ tracking_data' = tracking_data
          /\ \A k \in 1..Len(last_fix) :
                 Occurrences(last_fix[k], tracking_data') = 1]_vars

\* C7 witness: a fix has been computed twice and the buffer holds one row,
\* so the same fix was computed by two successful cycles in a row.
C7_Witness == repeated /\ Len(tracking_data) = 1 /\ outcome = "ok"

\* C8: after a successful cycle the table shows exactly the rows of the
\* buffer, newest first (timestamps never increase down the table).
C8_TableNewestFirst ==
    outcome = "ok" =>
        /\ Len(table_sink) = Len(tracking_data)
        /\ \A k \in 1..Len(tracking_data) :
               Occurrences(tracking_data[k], table_sink)
                   = Occurrences(tracking_data[k], tracking_data)
        /\ \A k \in 1..(Len(table_sink) - 1) :
               table_sink[k].timestamp >= table_sink[k + 1].timestamp

\* C8 witness: a full table with two rows of the same timestamp.
C8_Witness ==
    /\ outcome = "ok"
    /\ Len(table_sink) = 20
    /\ \E k \in 1..(Len(table_sink) - 1) :
           table_sink[k].timestamp = table_sink[k + 1].timestamp

\* The lines of the feed that name ISS (ZARYA), whatever the case of the
\* letters and the whitespace around them.
IsZaryaHeader(line) == Strip(Upper(line)) = HeaderZarya

IsElementLine(line) == line \in {ZaryaLine1, ZaryaLine2, OtherLine1, OtherLine2}

\* C9: when the fetched text holds an "ISS (ZARYA)" header followed by two
\* element lines, with entries of other objects before or after it,
\* fetch_iss_tle returns the two lines after that header, trimmed.
C9_ReturnsZaryaLines ==
    (outcome # "none" /\ response.ok) =>
        LET lines == SplitLines(response.text)
        IN  \A j \in 1..(Len(lines) - 2) :
                ( /\ IsZaryaHeader(lines[j])
                  /\ \A i \in 1..(j - 1) : ~IsZaryaHeader(lines[i])
                  /\ IsElementLine(lines[j + 1])
                  /\ IsElementLine(lines[j + 2]) )
                => tle_data = <<Strip(lines[j + 1]), Strip(lines[j + 2])>>

\* The text has no line that passes the name test of the scan, or none of
\* the lines that pass it has two lines after it.
NoUsableMatch(text) ==
    LET lines == SplitLines(Strip(text))
    IN  \A j \in 1..Len(lines) : IsMatch(lines[j]) => j + 2 > Len(lines)

\* C10: when the fetched text has no line matching the object name, or the
\* matching line has fewer than two lines after it, fetch_iss_tle returns
\* None and raises nothing, and the cycle reads no clock, computes no
\* position and leaves the buffer as it was.
C10_NotFoundDoesNothing ==
    [][(AtCycle /\ response'.ok /\ NoUsableMatch(response'.text)) =>
          /\ tle_data' = <<>>
          /\ outcome' = "notfound"
          /\ ~uncaught'
          /\ now' = now
          /\ last_fix' = last_fix
          /\ tracking_data' = tracking_data]_vars

\* C10 witness: a text whose matching line has fewer than two lines after
\* it was fetched in a session whose buffer holds a fix.
C10_Witness ==
    /\ outcome = "notfound"
    /\ tracking_data # <<>>
    /\ \E j \in 1..Len(SplitLines(Strip(response.text))) :
           IsMatch(SplitLines(Strip(response.text))[j])

----------------------------------------------------------------------------
(* Properties of the calls of update_position, the reruns and the merge.   *)

\* A step in which update_position is called, at line 77 or at line 81:
\* the script leaves line 76 with a call made, goes on to line 82, is
\* stopped, or ends with the exception of line 89.
Called ==
    /\ pc \in {"button", "loop"}
    /\ \/ pc' \in {"sleep", "rerun"}
       \/ uncaught'
       \/ (pc = "button" /\ pc' = "loop" /\ outcome' # "none")

\* In such a step the call has stored its merge at lines 98-100.
StoredMerge == outcome' = "ok" \/ stopped_at' \in {120, 123, 131}

\* Two frames with the same rows, each as many times.
SameRows(a, b) ==
    /\ Len(a) = Len(b)
    /\ \A k \in 1..Len(a) : Occurrences(a[k], a) = Occurrences(a[k], b)

\* Row is a row of the frame.
HasRow(row, rows) == \E k \in 1..Len(rows) : rows[k] = row

\* C11: a click on "Update Now" that came while update_position was
\* running is a no-op: the run started for it does not call update_position.
C11_TriggerInFlightIsNoOp ==
    [][(pc = "button" /\ update_now /\ in_flight) => ~Called]_vars

\* C12: in a run with the "Auto-update" box unticked update_position is
\* called only at line 77 of a run started by a click on "Update Now", that
\* run calls it, and the click is used up by the call, so it is called once;
\* the button is True at line 76 only.
C12_ManualOnlyWhenOff ==
    [][/\ ~auto_update => (Called <=> (pc = "button" /\ update_now /\ pc' # pc))
       /\ (~auto_update /\ Called) => ~update_now'
       /\ update_now' => pc' = "button"]_vars

\* C12 witness: a run with the box unticked has made its one call, the
\* second successful call of the session, and main has returned.
C12_Witness ==
    /\ ~auto_update
    /\ pc = "idle"
    /\ outcome = "ok"
    /\ Len(tracking_data) = 2

\* C13: once the runtime has received the unticking of "Auto-update", the
\* loop starts no further call of update_position; and a call during which
\* the unticking arrives is not stopped but runs to its end.
C13_Cancellation ==
    [][/\ (auto_update /\ pending = "toggle") => ~Called
       /\ (Called /\ auto_update /\ pending = "none" /\ pending' = "toggle")
              => outcome' # "stopped"]_vars

\* C14: a call of update_position that stored its merge has drawn the
\* stored frame into the map, shown the same rows in the table and written
\* the fix it computed into the telemetry panel; a failed call has left the
\* three placeholders as they were.
C14_SinksShareSnapshot ==
    [][Called =>
         /\ StoredMerge => /\ map_sink' = tracking_data'
                           /\ SameRows(table_sink', tracking_data')
                           /\ telemetry_sink' = last_fix'
         /\ outcome' \in Failures =>
                UNCHANGED <<map_sink, telemetry_sink, table_sink>>]_vars

\* C15: the session keeps its frame once it has one, the frame is created
\* empty, and the frame changes only in a call of update_position that
\* stores the merge of the frame with the fix it computed.
C15_OnlyMergeChangesBuffer ==
    [][/\ has_tracking_data => has_tracking_data'
       /\ (~has_tracking_data /\ has_tracking_data') => tracking_data' = <<>>
       /\ tracking_data' # tracking_data =>
              /\ Called
              /\ StoredMerge
              /\ tracking_data' = Merge(tracking_data, last_fix')]_vars

\* C15 witness: the script has been run again from the top in a session
\* whose frame has rows, and the frame still has them.
C15_Witness ==
    /\ pc = "button"
    /\ has_tracking_data
    /\ map_sink = <<>>
    /\ Len(tracking_data) >= 2

\* C16: when a call computes a fix that is already a row of the frame, that
\* fix is the last row of the frame the call stores.
C16_DuplicateMovesLast ==
    [][(Called /\ StoredMerge /\ HasRow(last_fix'[1], tracking_data))
           => tracking_data'[Len(tracking_data')] = last_fix'[1]]_vars

\* C17: every frame a reader has, in the session, in the map or in the
\* table, is a merged frame: at most 20 rows, no two of them equal; the
\* appended frame of line 99 is never seen.
C17_NoUnmergedFrameSeen ==
    \A frame \in {tracking_data, map_sink, table_sink} :
        /\ Len(frame) <= Capacity
        /\ Cardinality({frame[k] : k \in 1..Len(frame)}) = Len(frame)

\* C17 witness: a call has drawn its frame when the frame held 20 rows
\* before it and its fix was a new one, so the appended frame had 21.
C17_Witness ==
    /\ outcome = "ok"
    /\ Len(map_sink) = 20
    /\ Len(table_sink) = 20
    /\ Len(produced) = 21

\* C18: while no fix has been computed at an instant before that of the fix
\* before it, the rows of the frame are in the order of their timestamps,
\* and a call that changes a frame of 20 rows drops its first row.
C18_ChronologicalStorage ==
    [][~stepped_back' =>
         /\ \A k \in 1..(Len(tracking_data') - 1) :
                tracking_data'[k].timestamp <= tracking_data'[k + 1].timestamp
         /\ (Called /\ Len(tracking_data) = Capacity
                    /\ tracking_data' # tracking_data)
                => tracking_data' = Tail(tracking_data) \o last_fix']_vars

\* C18 witness: the frame is full, rows have been dropped from its front,
\* two of its rows have the same timestamp, and the clock never stepped back.
C18_Witness ==
    /\ ~stepped_back
    /\ Len(tracking_data) = 20
    /\ tracking_data[1].timestamp > 1
    /\ \E k \in 1..19 : tracking_data[k].timestamp = tracking_data[k + 1].timestamp

\* C19: whenever a call has written its fix into the telemetry panel, the
\* fix is a row of the frame the call drew into the map, and of the frame
\* it showed in the table if it got that far.
C19_FixInSnapshot ==
    (outcome = "ok" \/ stopped_at = 131) =>
        /\ telemetry_sink = last_fix
        /\ HasRow(telemetry_sink[1], map_sink)
        /\ outcome = "ok" => HasRow(telemetry_sink[1], table_sink)

\* C19 witness: the frame held 20 rows and the fix was one of them, not the
\* last.
C19_Witness ==
    /\ outcome = "ok"
    /\ repeated
    /\ Len(map_sink) = 20
    /\ telemetry_sink # <<map_sink[20]>>

\* C20: the number of rows of the frame never goes down; a call that does
\* not store a merge leaves it at n, and a call that stores one leaves it
\* at n if its fix was a row of the frame and at min(n + 1, 20) if not.
C20_LengthNeverDecreases ==
    [][/\ Len(tracking_data') >= Len(tracking_data)
       /\ Called =>
            Len(tracking_data') =
                IF ~StoredMerge \/ HasRow(last_fix'[1], tracking_data)
                THEN Len(tracking_data)
                ELSE IF Len(tracking_data) < Capacity
                     THEN Len(tracking_data) + 1 ELSE Capacity]_vars

\* C20 witness: calls with new fixes have left a full frame at 20 rows.
C20_Witness ==
    /\ outcome = "ok"
    /\ ~repeated
    /\ Len(tracking_data) = 20
    /\ Len(produced) = 24

====
